---- MODULE Spec2Model ----
(***************************************************************************)
(* Payment blocking for organizations that have not completed setup:       *)
(* the Organization readiness helpers, the payment-status endpoint, the    *)
(* checkout-creation guard, the dashboard OrganizationSetupBanner and the  *)
(* Checkout page component.                                                *)
(***************************************************************************)
EXTENDS Integers, Sequences, FiniteSets, TLC

(* ------------------------------ bounds --------------------------------- *)

\* largest number of keys the JSONB `details` document holds in the model
MaxDetailKeys == 1
\* checkouts that may be created in one behaviour
MaxCheckouts == 2
\* calls of the payment-status endpoint in one behaviour
MaxCalls == 2
\* distinct values the checkout client resolves an update or a confirm with
MaxResult == 2

(* ------------------------------ values --------------------------------- *)

\* Organization.Status / Account.Status
Status == {"created", "onboarding_started", "under_review", "denied", "active"}

ACTIVE == "active"

IdentityVerificationStatus == {"unverified", "pending", "verified", "failed"}

\* Python None for the JSONB details column (a dict is modelled by its size)
NoneDetails == -1

DetailsValues == {NoneDetails} \cup (0 .. MaxDetailKeys)

\* Python None for a timestamp / a foreign key
NoneValue == 0

\* the instant a details submission is stamped with
SubmittedNow == 1

\* the primary key of the one payout account of the model
AccountId == 1

NoAccount == [present |-> FALSE]

Accounts == [present : {TRUE}, status : Status, payout_ready : BOOLEAN]

NoUser == [present |-> FALSE]

NoStatus == [known |-> FALSE]

Users == [present : {TRUE}, identity_verification_status : IdentityVerificationStatus]

VARIABLES
    organization,   \* the Organization row: status, details, details_submitted_at, account_id
    account,        \* organization.account: the related Account row, or NoAccount
    user,           \* the authenticated admin user
    checkouts,      \* the checkouts created so far, in creation order
    served,         \* number of payment-status requests served
    ret,            \* what the last backend operation returned or raised
    lastStatus,     \* the latest payment-status response, kept while the rows it read are unmodified
    query,          \* dashboard: the useOrganizationPaymentStatus query state
    rendered,       \* dashboard: what OrganizationSetupBanner rendered
    props,          \* checkout page: CheckoutProps and the checkout of useCheckoutForm
    view,           \* checkout page: what Checkout rendered
    upd,            \* checkout page: the update wrapper's call in flight
    cfm,            \* checkout page: the confirm wrapper's call in flight
    fullLoading     \* checkout page: the fullLoading state of Checkout

backendVars == <<organization, account, user, checkouts, served, ret, lastStatus>>

dashboardVars == <<query, rendered>>

checkoutPageVars == <<props, view, upd, cfm, fullLoading>>

vars == <<organization, account, user, checkouts, served, ret, lastStatus, query, rendered, props, view, upd, cfm, fullLoading>>

(* --------------------- Organization model helpers ---------------------- *)

\* Python truthiness of the details dict: None and {} are falsy
DetailsTruthy(d) == d # NoneDetails /\ d > 0

\* Account.is_payout_ready(): the account's own readiness verdict
is_payout_ready(a) == a.payout_ready

\* is_payment_ready without the details_submitted_at test
is_payment_ready_NoSubmittedAt(org, acc) ==
    IF org.status # ACTIVE THEN FALSE
    ELSE IF ~DetailsTruthy(org.details) THEN FALSE
    ELSE IF org.account_id = NoneValue \/ ~acc.present THEN FALSE
    ELSE IF ~is_payout_ready(acc) THEN FALSE
    ELSE TRUE

is_payment_ready(org, acc) ==
    IF org.status # ACTIVE THEN FALSE
    ELSE IF ~DetailsTruthy(org.details) \/ org.details_submitted_at = NoneValue THEN FALSE
    ELSE IF org.account_id = NoneValue \/ ~acc.present THEN FALSE
    ELSE IF ~is_payout_ready(acc) THEN FALSE
    ELSE TRUE

MissingDetails(org) ==
    IF ~DetailsTruthy(org.details) \/ org.details_submitted_at = NoneValue
    THEN <<"organization_details">> ELSE <<>>

MissingAccount(org, acc) ==
    IF org.account_id = NoneValue \/ ~acc.present THEN <<"payout_account">>
    ELSE IF ~is_payout_ready(acc) THEN <<"payout_account_activation">>
    ELSE <<>>

MissingIdentity(u) ==
    IF u.present /\ u.identity_verification_status # "verified"
    THEN <<"identity_verification">> ELSE <<>>

\* get_missing_steps with the account check placed before the details check
get_missing_steps_AccountFirst(org, acc, u) ==
    MissingAccount(org, acc) \o MissingDetails(org) \o MissingIdentity(u)

get_missing_steps(org, acc, u) ==
    MissingDetails(org) \o MissingAccount(org, acc) \o MissingIdentity(u)

(* ------------------------- payment-status endpoint --------------------- *)

\* the response with payment_ready derived from the missing-step list
OrganizationPaymentStatus_FromMissing(org, acc, u) ==
    [ payment_ready |-> get_missing_steps(org, acc, u) = <<>>,
      missing_steps |-> get_missing_steps(org, acc, u),
      organization_status |-> org.status,
      account_status |-> IF acc.present THEN acc.status ELSE "None",
      identity_verification_status |-> u.identity_verification_status ]

OrganizationPaymentStatus(org, acc, u) ==
    [ payment_ready |-> is_payment_ready(org, acc),
      missing_steps |-> get_missing_steps(org, acc, u),
      organization_status |-> org.status,
      account_status |-> IF acc.present THEN acc.status ELSE "None",
      identity_verification_status |-> u.identity_verification_status ]

\* the endpoint stamping the organization as onboarding when it is read
get_organization_payment_status_Touching ==
    /\ served < MaxCalls
    /\ served' = served + 1
    /\ ret' = [op |-> "get_organization_payment_status",
               response |-> OrganizationPaymentStatus(organization, account, user)]
    /\ lastStatus' = [known |-> TRUE,
                      response |-> OrganizationPaymentStatus(organization, account, user)]
    /\ organization' = [organization EXCEPT !.status =
                            IF @ = "created" THEN "onboarding_started" ELSE @]
    /\ UNCHANGED <<account, user, checkouts>>

get_organization_payment_status ==
    /\ served < MaxCalls
    /\ served' = served + 1
    /\ ret' = [op |-> "get_organization_payment_status",
               response |-> OrganizationPaymentStatus(organization, account, user)]
    /\ lastStatus' = [known |-> TRUE,
                      response |-> OrganizationPaymentStatus(organization, account, user)]
    /\ UNCHANGED <<organization, account, user, checkouts>>

(* --------------------------- checkout service -------------------------- *)

\* the fields of the organization and its account at the moment of a call
ReadinessFacts(org, acc) ==
    [ status |-> org.status,
      details |-> org.details,
      details_submitted_at |-> org.details_submitted_at,
      has_account |-> org.account_id # NoneValue /\ acc.present,
      payout_ready |-> acc.present /\ acc.payout_ready ]

\* create_checkout without the readiness guard
create_checkout_Unguarded ==
    /\ Len(checkouts) < MaxCheckouts
    /\ checkouts' = Append(checkouts,
            [id |-> Len(checkouts) + 1,
             created_when |-> ReadinessFacts(organization, account)])
    /\ ret' = [op |-> "create_checkout", raised |-> "none"]
    /\ lastStatus' = NoStatus
    /\ UNCHANGED <<organization, account, user, served>>

create_checkout ==
    /\ Len(checkouts) < MaxCheckouts
    /\ IF ~is_payment_ready(organization, account)
       THEN /\ ret' = [op |-> "create_checkout", raised |-> "CheckoutNotAllowed"]
            /\ UNCHANGED <<checkouts, lastStatus>>
       ELSE /\ checkouts' = Append(checkouts,
                   [id |-> Len(checkouts) + 1,
                    created_when |-> ReadinessFacts(organization, account)])
            /\ ret' = [op |-> "create_checkout", raised |-> "none"]
            /\ lastStatus' = NoStatus
    /\ UNCHANGED <<organization, account, user, served>>

(* ------------------- direct calls of the model helpers ----------------- *)

call_is_payment_ready ==
    /\ ret' = [op |-> "is_payment_ready",
               value |-> is_payment_ready(organization, account)]
    /\ UNCHANGED <<organization, account, user, checkouts, served, lastStatus>>

call_get_missing_steps ==
    /\ \E u \in {user, NoUser} :
          ret' = [op |-> "get_missing_steps", user |-> u,
                  value |-> get_missing_steps(organization, account, u)]
    /\ UNCHANGED <<organization, account, user, checkouts, served, lastStatus>>

(* ------------- writes of the surrounding application ------------------- *)

set_status ==
    /\ \E s \in Status : organization' = [organization EXCEPT !.status = s]
    /\ ret' = [op |-> "set_status"]
    /\ lastStatus' = NoStatus
    /\ UNCHANGED <<account, user, checkouts, served>>

set_details ==
    /\ \E d \in DetailsValues : organization' = [organization EXCEPT !.details = d]
    /\ ret' = [op |-> "set_details"]
    /\ lastStatus' = NoStatus
    /\ UNCHANGED <<account, user, checkouts, served>>

set_details_submitted_at ==
    /\ \E t \in {NoneValue, SubmittedNow} :
          organization' = [organization EXCEPT !.details_submitted_at = t]
    /\ ret' = [op |-> "set_details_submitted_at"]
    /\ lastStatus' = NoStatus
    /\ UNCHANGED <<account, user, checkouts, served>>

create_account ==
    /\ ~account.present
    /\ account' = [present |-> TRUE, status |-> "created", payout_ready |-> FALSE]
    /\ organization' = [organization EXCEPT !.account_id = AccountId]
    /\ ret' = [op |-> "create_account"]
    /\ lastStatus' = NoStatus
    /\ UNCHANGED <<user, checkouts, served>>

update_account ==
    /\ account.present
    /\ \E s \in Status, r \in BOOLEAN :
          account' = [account EXCEPT !.status = s, !.payout_ready = r]
    /\ ret' = [op |-> "update_account"]
    /\ lastStatus' = NoStatus
    /\ UNCHANGED <<organization, user, checkouts, served>>

set_identity_verification_status ==
    /\ \E v \in IdentityVerificationStatus :
          user' = [user EXCEPT !.identity_verification_status = v]
    /\ ret' = [op |-> "set_identity_verification_status"]
    /\ lastStatus' = NoStatus
    /\ UNCHANGED <<organization, account, checkouts, served>>

(* ----------------------------- backend spec ---------------------------- *)

InitOrganization ==
    [status |-> "created", details |-> NoneDetails,
     details_submitted_at |-> NoneValue, account_id |-> NoneValue]

InitUser == [present |-> TRUE, identity_verification_status |-> "unverified"]

(* ------------------- dashboard: OrganizationSetupBanner ---------------- *)

\* Array.prototype.includes on the missing_steps list
Includes(steps, key) == \E i \in DOMAIN steps : steps[i] = key

SetupStep(paymentStatus, key) ==
    [key |-> key, completed |-> ~Includes(paymentStatus.missing_steps, key)]

\* steps.filter((s) => s.completed).length
RECURSIVE CountCompleted(_)
CountCompleted(steps) ==
    IF steps = <<>> THEN 0
    ELSE (IF Head(steps).completed THEN 1 ELSE 0) + CountCompleted(Tail(steps))

\* steps.findIndex((step) => !step.completed): 0-based, -1 when there is none
FindFirstIncomplete(steps) ==
    IF \A i \in DOMAIN steps : steps[i].completed THEN -1
    ELSE (CHOOSE i \in DOMAIN steps :
             /\ ~steps[i].completed
             /\ \A j \in DOMAIN steps : j < i => steps[j].completed) - 1

BannerSteps(paymentStatus) ==
    << SetupStep(paymentStatus, "create_product"),
       SetupStep(paymentStatus, "integrate_polar"),
       SetupStep(paymentStatus, "complete_account_setup") >>

\* the component without the payment_ready test of its early return
OrganizationSetupBanner_IgnoresReady(q) ==
    IF q.isLoading \/ ~q.hasData
    THEN [kind |-> "null"]
    ELSE [kind |-> "banner",
          steps |-> BannerSteps(q.data),
          completedSteps |-> CountCompleted(BannerSteps(q.data)),
          totalSteps |-> Len(BannerSteps(q.data)),
          headline |-> IF CountCompleted(BannerSteps(q.data)) = Len(BannerSteps(q.data))
                       THEN "all_set" ELSE "steps_completed",
          currentStepIndex |-> FindFirstIncomplete(BannerSteps(q.data))]

OrganizationSetupBanner(q) ==
    IF q.isLoading \/ ~q.hasData \/ q.data.payment_ready
    THEN [kind |-> "null"]
    ELSE [kind |-> "banner",
          steps |-> BannerSteps(q.data),
          completedSteps |-> CountCompleted(BannerSteps(q.data)),
          totalSteps |-> Len(BannerSteps(q.data)),
          headline |-> IF CountCompleted(BannerSteps(q.data)) = Len(BannerSteps(q.data))
                       THEN "all_set" ELSE "steps_completed",
          currentStepIndex |-> FindFirstIncomplete(BannerSteps(q.data))]

\* useOrganizationPaymentStatus: the request resolved with the endpoint's response
query_success ==
    /\ get_organization_payment_status
    /\ query' = [isLoading |-> FALSE, hasData |-> TRUE, data |-> ret'.response]
    /\ rendered' = OrganizationSetupBanner(query')

\* useOrganizationPaymentStatus: the request failed before any data arrived
query_error ==
    /\ query.isLoading
    /\ query' = [isLoading |-> FALSE, hasData |-> FALSE]
    /\ rendered' = OrganizationSetupBanner(query')
    /\ UNCHANGED backendVars

\* useOrganizationPaymentStatus: the cached result is dropped and fetched anew
query_reset ==
    /\ ~query.isLoading
    /\ query' = [isLoading |-> TRUE, hasData |-> FALSE]
    /\ rendered' = OrganizationSetupBanner(query')
    /\ UNCHANGED backendVars

(* ------------------------ checkout page: Checkout ---------------------- *)

\* a JavaScript boolean that may be missing
JsBoolean == {"true", "false", "undefined"}

AmountTypes == {"fixed", "custom", "free"}

ExpiredCheckoutError == "ExpiredCheckoutError"

Errors == {ExpiredCheckoutError, "NotOpenCheckout", "Error"}

\* error instanceof ExpiredCheckoutError
InstanceOfExpired(error) == error = ExpiredCheckoutError

\* x === true and x === false
StrictTrue(x) == x = "true"

StrictFalse(x) == x = "false"

\* JavaScript truthiness of an optional boolean
Truthy(x) == x = "true"

Results == 1 .. MaxResult

ConfirmedCheckouts == [customerSessionToken : Results]

Fulfilled(v) == [kind |-> "fulfilled", value |-> v]

Rejected(e) == [kind |-> "rejected", error |-> e]

\* Checkout with the form disabled on any falsy organizationPaymentReady
Checkout_FalsyDisabled(p, fl) ==
    [ layout |-> IF StrictTrue(p.embed) THEN "embed" ELSE "full",
      banner |-> StrictFalse(p.organizationPaymentReady),
      pwywForm |-> (p.amountType = "custom"),
      card |-> ~StrictTrue(p.embed),
      formLoading |-> (p.confirmLoading \/ fl),
      formDisabled |-> ~Truthy(p.organizationPaymentReady) ]

\* what the component renders, in the embed and in the full layout
Checkout(p, fl) ==
    IF StrictTrue(p.embed)
    THEN [ layout |-> "embed",
           banner |-> StrictFalse(p.organizationPaymentReady),
           pwywForm |-> (p.amountType = "custom"),
           card |-> FALSE,
           formLoading |-> (p.confirmLoading \/ fl),
           formDisabled |-> StrictFalse(p.organizationPaymentReady) ]
    ELSE [ layout |-> "full",
           banner |-> StrictFalse(p.organizationPaymentReady),
           pwywForm |-> (p.amountType = "custom"),
           card |-> TRUE,
           formLoading |-> (p.confirmLoading \/ fl),
           formDisabled |-> StrictFalse(p.organizationPaymentReady) ]

\* useCheckoutForm hands the component another checkout or loading flag
checkout_changed ==
    /\ \E r \in JsBoolean, t \in AmountTypes, l \in BOOLEAN :
          props' = [props EXCEPT !.organizationPaymentReady = r,
                                 !.amountType = t, !.confirmLoading = l]
    /\ view' = Checkout(props', fullLoading)
    /\ UNCHANGED <<upd, cfm, fullLoading>>

\* update(data): the wrapper calls _update(data) and awaits it
update_call ==
    /\ upd.pc \in {"idle", "done"}
    /\ upd' = [pc |-> "awaiting", reloaded |-> FALSE]
    /\ UNCHANGED <<props, view, cfm, fullLoading>>

\* the promise of _update settles
update_settle ==
    /\ upd.pc = "awaiting"
    /\ \E inner \in {Fulfilled(v) : v \in Results} \cup {Rejected(e) : e \in Errors} :
          upd' = [pc |-> "settled", reloaded |-> FALSE, inner |-> inner]
    /\ UNCHANGED <<props, view, cfm, fullLoading>>

\* the catch block of update resolving with undefined instead of rethrowing
update_resume_Swallow ==
    /\ upd.pc = "settled"
    /\ upd' = IF upd.inner.kind = "fulfilled"
              THEN [pc |-> "done", reloaded |-> FALSE, inner |-> upd.inner,
                    outcome |-> upd.inner]
              ELSE [pc |-> "done", reloaded |-> InstanceOfExpired(upd.inner.error),
                    inner |-> upd.inner, outcome |-> Fulfilled(0)]
    /\ UNCHANGED <<props, view, cfm, fullLoading>>

\* the wrapper resumes after the await: return the value, or catch and rethrow
update_resume ==
    /\ upd.pc = "settled"
    /\ upd' = IF upd.inner.kind = "fulfilled"
              THEN [pc |-> "done", reloaded |-> FALSE, inner |-> upd.inner,
                    outcome |-> Fulfilled(upd.inner.value)]
              ELSE [pc |-> "done", reloaded |-> InstanceOfExpired(upd.inner.error),
                    inner |-> upd.inner, outcome |-> Rejected(upd.inner.error)]
    /\ UNCHANGED <<props, view, cfm, fullLoading>>

\* the checkout of useCheckoutForm, as the component's closures see it
CheckoutOf(p) ==
    [organizationPaymentReady |-> p.organizationPaymentReady,
     amountType |-> p.amountType]

\* confirm(data, stripe, elements): setFullLoading(true), then _confirm is
\* invoked and awaited; the callback keeps the checkout of its render
confirm_call ==
    /\ cfm.pc \in {"idle", "done"}
    /\ fullLoading' = TRUE
    /\ cfm' = [pc |-> "awaiting_confirm", reloaded |-> FALSE, redirected |-> FALSE,
               checkout |-> CheckoutOf(props),
               log |-> <<"setFullLoading_true", "_confirm_invoked">>]
    /\ view' = Checkout(props, fullLoading')
    /\ UNCHANGED <<props, upd>>

\* the promise of _confirm settles
confirm_settle ==
    /\ cfm.pc = "awaiting_confirm"
    /\ \E inner \in {Fulfilled(c) : c \in ConfirmedCheckouts}
                       \cup {Rejected(e) : e \in Errors} :
          cfm' = [pc |-> "confirm_settled", reloaded |-> FALSE,
                  redirected |-> FALSE, inner |-> inner,
                  checkout |-> cfm.checkout,
                  log |-> Append(cfm.log, IF inner.kind = "fulfilled"
                                          THEN "_confirm_resolved"
                                          ELSE "_confirm_rejected")]
    /\ UNCHANGED <<props, view, upd, fullLoading>>

\* what the catch block of confirm does, in order
CatchEvents(error) ==
    (IF InstanceOfExpired(error) THEN <<"reload">> ELSE <<>>)
        \o <<"setFullLoading_false", "throw">>

\* the catch block of confirm rethrowing without resetting fullLoading
confirm_resume_NoReset ==
    /\ cfm.pc = "confirm_settled"
    /\ IF cfm.inner.kind = "rejected"
       THEN /\ cfm' = [pc |-> "done", reloaded |-> InstanceOfExpired(cfm.inner.error),
                       redirected |-> FALSE, inner |-> cfm.inner,
                       outcome |-> Rejected(cfm.inner.error),
                       checkout |-> cfm.checkout,
                       log |-> cfm.log \o
                           (IF InstanceOfExpired(cfm.inner.error)
                            THEN <<"reload">> ELSE <<>>) \o <<"throw">>]
            /\ UNCHANGED fullLoading
       ELSE /\ cfm' = [pc |-> "awaiting_redirect", reloaded |-> FALSE,
                       redirected |-> TRUE, inner |-> cfm.inner,
                       redirectToken |-> cfm.inner.value.customerSessionToken,
                       redirectCheckout |-> cfm.checkout,
                       checkout |-> cfm.checkout,
                       log |-> Append(cfm.log, "redirect_invoked")]
            /\ UNCHANGED fullLoading
    /\ view' = Checkout(props, fullLoading')
    /\ UNCHANGED <<props, upd>>

\* the wrapper resumes: catch, reload on expiry, reset fullLoading and rethrow,
\* or call checkoutConfirmedRedirect(checkout, customerSessionToken)
confirm_resume ==
    /\ cfm.pc = "confirm_settled"
    /\ IF cfm.inner.kind = "rejected"
       THEN /\ cfm' = [pc |-> "done", reloaded |-> InstanceOfExpired(cfm.inner.error),
                       redirected |-> FALSE, inner |-> cfm.inner,
                       outcome |-> Rejected(cfm.inner.error),
                       checkout |-> cfm.checkout,
                       log |-> cfm.log \o CatchEvents(cfm.inner.error)]
            /\ fullLoading' = FALSE
       ELSE /\ cfm' = [pc |-> "awaiting_redirect", reloaded |-> FALSE,
                       redirected |-> TRUE, inner |-> cfm.inner,
                       redirectToken |-> cfm.inner.value.customerSessionToken,
                       redirectCheckout |-> cfm.checkout,
                       checkout |-> cfm.checkout,
                       log |-> Append(cfm.log, "redirect_invoked")]
            /\ UNCHANGED fullLoading
    /\ view' = Checkout(props, fullLoading')
    /\ UNCHANGED <<props, upd>>

\* checkoutConfirmedRedirect settles and confirm returns the confirmed
\* checkout, or fails with the error of the redirect
confirm_finish ==
    /\ cfm.pc = "awaiting_redirect"
    /\ \E r \in {Fulfilled(0)} \cup {Rejected(e) : e \in Errors} :
          cfm' = [pc |-> "done", reloaded |-> FALSE, redirected |-> TRUE,
                  inner |-> cfm.inner, redirectToken |-> cfm.redirectToken,
                  redirectCheckout |-> cfm.redirectCheckout,
                  checkout |-> cfm.checkout,
                  log |-> cfm.log \o (IF r.kind = "fulfilled"
                                      THEN <<"redirect_resolved", "return">>
                                      ELSE <<"redirect_rejected", "throw">>),
                  outcome |-> IF r.kind = "fulfilled"
                              THEN Fulfilled(cfm.inner.value) ELSE r]
    /\ UNCHANGED <<props, view, upd, fullLoading>>

(* ------------------------------ specifications ------------------------- *)

InitBackend ==
    /\ organization = InitOrganization
    /\ account = NoAccount
    /\ user = InitUser
    /\ checkouts = <<>>
    /\ served = 0
    /\ ret = [op |-> "none"]
    /\ lastStatus = NoStatus

\* the dashboard before the banner is mounted
InitDashboardIdle ==
    /\ query = [isLoading |-> FALSE, hasData |-> FALSE]
    /\ rendered = [kind |-> "null"]

InitProps ==
    [embed |-> "undefined", organizationPaymentReady |-> "undefined",
     amountType |-> "fixed", confirmLoading |-> FALSE]

\* the checkout page before any interaction
InitCheckoutPageIdle ==
    /\ props = InitProps
    /\ view = Checkout(InitProps, FALSE)
    /\ upd = [pc |-> "idle"]
    /\ cfm = [pc |-> "idle"]
    /\ fullLoading = FALSE

Init ==
    /\ InitBackend
    /\ InitDashboardIdle
    /\ InitCheckoutPageIdle

Next ==
    \/ (get_organization_payment_status /\ UNCHANGED <<dashboardVars, checkoutPageVars>>)
    \/ (create_checkout /\ UNCHANGED <<dashboardVars, checkoutPageVars>>)
    \/ (call_is_payment_ready /\ UNCHANGED <<dashboardVars, checkoutPageVars>>)
    \/ (call_get_missing_steps /\ UNCHANGED <<dashboardVars, checkoutPageVars>>)
    \/ (set_status /\ UNCHANGED <<dashboardVars, checkoutPageVars>>)
    \/ (set_details /\ UNCHANGED <<dashboardVars, checkoutPageVars>>)
    \/ (set_details_submitted_at /\ UNCHANGED <<dashboardVars, checkoutPageVars>>)
    \/ (create_account /\ UNCHANGED <<dashboardVars, checkoutPageVars>>)
    \/ (update_account /\ UNCHANGED <<dashboardVars, checkoutPageVars>>)
    \/ (set_identity_verification_status /\ UNCHANGED <<dashboardVars, checkoutPageVars>>)

Spec == Init /\ [][Next]_vars

\* the banner mounted on the dashboard of any organization the backend can hold
InitBanner ==
    /\ organization \in [status : Status, details : DetailsValues,
                         details_submitted_at : {NoneValue, SubmittedNow},
                         account_id : {NoneValue, AccountId}]
    /\ account \in {NoAccount} \cup Accounts
    /\ account.present <=> organization.account_id = AccountId
    /\ user \in Users
    /\ checkouts = <<>>
    /\ served = 0
    /\ ret = [op |-> "none"]
    /\ lastStatus = NoStatus
    /\ query = [isLoading |-> TRUE, hasData |-> FALSE]
    /\ rendered = OrganizationSetupBanner(query)
    /\ InitCheckoutPageIdle

NextBanner ==
    \/ (query_success /\ UNCHANGED checkoutPageVars)
    \/ (query_error /\ UNCHANGED checkoutPageVars)
    \/ (query_reset /\ UNCHANGED checkoutPageVars)

SpecBanner == InitBanner /\ [][NextBanner]_vars

\* the checkout page mounted with any props
InitCheckout ==
    /\ InitBackend
    /\ InitDashboardIdle
    /\ props \in [embed : JsBoolean, organizationPaymentReady : JsBoolean,
                  amountType : AmountTypes, confirmLoading : {FALSE}]
    /\ view = Checkout(props, FALSE)
    /\ upd = [pc |-> "idle"]
    /\ cfm = [pc |-> "idle"]
    /\ fullLoading = FALSE

NextCheckout ==
    \/ (checkout_changed /\ UNCHANGED <<backendVars, dashboardVars>>)
    \/ (update_call /\ UNCHANGED <<backendVars, dashboardVars>>)
    \/ (update_settle /\ UNCHANGED <<backendVars, dashboardVars>>)
    \/ (update_resume /\ UNCHANGED <<backendVars, dashboardVars>>)
    \/ (confirm_call /\ UNCHANGED <<backendVars, dashboardVars>>)
    \/ (confirm_settle /\ UNCHANGED <<backendVars, dashboardVars>>)
    \/ (confirm_resume /\ UNCHANGED <<backendVars, dashboardVars>>)
    \/ (confirm_finish /\ UNCHANGED <<backendVars, dashboardVars>>)

SpecCheckout == InitCheckout /\ [][NextCheckout]_vars


(* ------------------------ properties of the backend -------------------- *)

\* the five conditions of payment readiness, read off the rows
ReadyConditions(f) ==
    /\ f.status = ACTIVE
    /\ f.details # NoneDetails /\ f.details > 0
    /\ f.details_submitted_at # NoneValue
    /\ f.has_account
    /\ f.payout_ready

\* C1: is_payment_ready returns true exactly when status is ACTIVE, details
\* is non-empty, details_submitted_at is set, an account exists and the
\* account is payout-ready; in every other combination it returns false.
C1_IsPaymentReadyIff ==
    ret.op = "is_payment_ready" =>
        (ret.value <=> ReadyConditions(ReadinessFacts(organization, account)))

C1_Witness ==
    /\ ret.op = "is_payment_ready"
    /\ ret.value
    /\ organization.status = ACTIVE
    /\ account.present

\* C2: a create_checkout call made while the organization is not payment-ready
\* raises CheckoutNotAllowed and creates no checkout, so every checkout that
\* exists was created while its organization was payment-ready.
C2_BlockedStep ==
    (ret'.op = "create_checkout" /\ ~is_payment_ready(organization, account)) =>
        /\ ret'.raised = "CheckoutNotAllowed"
        /\ checkouts' = checkouts

C2_CheckoutBlockedWhenNotReady ==
    /\ [][C2_BlockedStep]_vars
    /\ [](\A i \in DOMAIN checkouts : ReadyConditions(checkouts[i].created_when))

C2_Witness ==
    /\ ret.op = "create_checkout"
    /\ ret.raised = "CheckoutNotAllowed"
    /\ Len(checkouts) = 1
    /\ organization.status # ACTIVE

\* C3: checkout creation succeeds only when organization details are
\* submitted, a payout account is created and activated and the admin user's
\* identity verification is verified; with identity verification not passed
\* checkout creation is blocked.
C3_BlockedUntilIdentityVerified ==
    (ret.op = "create_checkout" /\ user.identity_verification_status # "verified") =>
        ret.raised = "CheckoutNotAllowed"

Has(steps, name) == \E i \in DOMAIN steps : steps[i] = name

\* position of a step name in the fixed order of get_missing_steps
StepRank(name) ==
    CASE name = "organization_details" -> 1
      [] name = "payout_account" -> 2
      [] name = "payout_account_activation" -> 2
      [] name = "identity_verification" -> 3
      [] OTHER -> 0

\* C4: get_missing_steps(org, user) is a duplicate-free subsequence of
\* [organization_details, payout_account | payout_account_activation,
\* identity_verification]; each step is present exactly under its condition.
C4_MissingStepsShape ==
    (ret.op = "get_missing_steps" /\ ret.user.present) =>
        /\ \A i \in DOMAIN ret.value : StepRank(ret.value[i]) > 0
        /\ \A i, j \in DOMAIN ret.value :
              i < j => StepRank(ret.value[i]) < StepRank(ret.value[j])
        /\ Has(ret.value, "organization_details") <=>
              (organization.details \in {NoneDetails, 0}
                 \/ organization.details_submitted_at = NoneValue)
        /\ Has(ret.value, "payout_account") <=> ~account.present
        /\ Has(ret.value, "payout_account_activation") <=>
              (account.present /\ ~account.payout_ready)
        /\ Has(ret.value, "identity_verification") <=>
              (ret.user.identity_verification_status # "verified")

C4_Witness ==
    /\ ret.op = "get_missing_steps"
    /\ ret.user.present
    /\ ret.value = <<"organization_details", "payout_account_activation",
                     "identity_verification">>

\* C5: the payment-status endpoint is a pure read: a call leaves the
\* organization, its account, the user and the checkouts unchanged, and a call
\* made with none of them changed since the previous call returns the same
\* response as that call.
C5_ReadStep ==
    served' = served + 1 =>
        /\ UNCHANGED <<organization, account, user, checkouts>>
        /\ lastStatus.known => ret'.response = lastStatus.response

C5_StatusEndpointPureRead == [][C5_ReadStep]_vars

C5_Witness ==
    /\ served = 2
    /\ ret.op = "get_organization_payment_status"
    /\ lastStatus.known
    /\ organization.status = "created"

\* C6: in every response payment_ready is is_payment_ready(), missing_steps is
\* get_missing_steps(authenticated user), organization_status and
\* identity_verification_status are the stored ones, and account_status is the
\* account's status, None exactly when there is no account.
C6_ResponseFields ==
    ret.op = "get_organization_payment_status" =>
        /\ ret.response.payment_ready = is_payment_ready(organization, account)
        /\ ret.response.missing_steps = get_missing_steps(organization, account, user)
        /\ ret.response.organization_status = organization.status
        /\ ret.response.identity_verification_status = user.identity_verification_status
        /\ account.present => ret.response.account_status = account.status
        /\ ret.response.account_status = "None" <=> ~account.present

C6_Witness ==
    /\ ret.op = "get_organization_payment_status"
    /\ ret.response.payment_ready
    /\ ret.response.missing_steps = <<"identity_verification">>
    /\ ret.response.account_status = "under_review"

(* ------------------------ properties of the dashboard ------------------ *)

\* C7: OrganizationSetupBanner renders nothing whenever the query is loading,
\* has no data or reports payment_ready true, and renders the setup banner in
\* exactly the remaining case.
C7_BannerHiddenUnlessNotReady ==
    (rendered.kind = "null") <=>
        (query.isLoading \/ ~query.hasData \/ query.data.payment_ready)

C7_Witness ==
    /\ query.hasData
    /\ ~query.isLoading
    /\ query.data.payment_ready
    /\ query.data.missing_steps # <<>>
    /\ rendered.kind = "null"

\* C8: a banner step is shown completed only if the requirement it stands for
\* is absent from missing_steps, so with a non-empty missing_steps the banner
\* shows at least one incomplete step and a completed count below the total.
C8_BannerShowsProgress ==
    (rendered.kind = "banner" /\ query.data.missing_steps # <<>>) =>
        /\ \E i \in DOMAIN rendered.steps : ~rendered.steps[i].completed
        /\ rendered.completedSteps < rendered.totalSteps

(* ---------------------- properties of the checkout page ---------------- *)

C10_WrappersRethrow ==
    /\ (upd.pc = "done" /\ upd.inner.kind = "rejected") =>
          /\ upd.outcome = [kind |-> "rejected", error |-> upd.inner.error]
          /\ upd.reloaded <=> (upd.inner.error = ExpiredCheckoutError)
    /\ (upd.pc = "done" /\ upd.inner.kind = "fulfilled") =>
          upd.outcome = upd.inner
    /\ (cfm.pc = "done" /\ cfm.inner.kind = "rejected") =>
          /\ cfm.outcome = [kind |-> "rejected", error |-> cfm.inner.error]
          /\ cfm.reloaded <=> (cfm.inner.error = ExpiredCheckoutError)

C10_Witness ==
    /\ upd.pc = "done"
    /\ upd.inner = [kind |-> "rejected", error |-> ExpiredCheckoutError]
    /\ upd.reloaded
    /\ cfm.pc = "done"
    /\ cfm.inner.kind = "rejected"
    /\ ~cfm.reloaded

\* the events of the confirm call in flight or last finished, in order
ConfirmLog == IF cfm.pc = "idle" THEN <<>> ELSE cfm.log

Happened(e) == \E i \in DOMAIN ConfirmLog : ConfirmLog[i] = e

\* event a happened, and earlier than every occurrence of event b
Precedes(a, b) ==
    \E i \in DOMAIN ConfirmLog :
        /\ ConfirmLog[i] = a
        /\ \A j \in DOMAIN ConfirmLog : ConfirmLog[j] = b => i < j

\* the order of the events of confirm, whatever checkout the redirect is given
ConfirmEventsOrdered ==
    /\ Happened("_confirm_invoked") =>
          Precedes("setFullLoading_true", "_confirm_invoked")
    /\ Happened("redirect_invoked") =>
          /\ Precedes("_confirm_resolved", "redirect_invoked")
          /\ cfm.inner.kind = "fulfilled"
          /\ cfm.redirectToken = cfm.inner.value.customerSessionToken
    /\ Happened("_confirm_rejected") =>
          /\ ~Happened("redirect_invoked")
          /\ Happened("throw") =>
                /\ Precedes("setFullLoading_false", "throw")
                /\ ~fullLoading
                /\ cfm.outcome = [kind |-> "rejected", error |-> cfm.inner.error]
    /\ Happened("return") =>
          /\ Precedes("redirect_resolved", "return")
          /\ cfm.outcome = [kind |-> "fulfilled", value |-> cfm.inner.value]

\* the step in which confirm is called
ConfirmCalled == cfm.pc \in {"idle", "done"} /\ cfm'.pc = "awaiting_confirm"

\* the step in which checkoutConfirmedRedirect is invoked
RedirectInvoked == cfm.pc = "confirm_settled" /\ cfm'.pc = "awaiting_redirect"

\* C11 as stated: in confirm, fullLoading is set true before _confirm is
\* invoked; checkoutConfirmedRedirect is invoked only after _confirm resolved,
\* with the checkout current at that moment and the confirmed checkout's
\* customerSessionToken, and never when _confirm rejects; on rejection
\* fullLoading is reset before the rethrow; the confirmed checkout is returned
\* only after the redirect completed.
C11_RedirectGetsCurrentCheckout ==
    /\ [](ConfirmEventsOrdered)
    /\ [][RedirectInvoked => cfm'.redirectCheckout = CheckoutOf(props)]_vars

\* C11 amended: the same order of events, and the checkout handed to
\* checkoutConfirmedRedirect is the one of the render in which confirm was
\* called, whatever useCheckoutForm holds when the redirect is invoked.
C11_ConfirmOrdering ==
    /\ [](ConfirmEventsOrdered)
    /\ [][ConfirmCalled => cfm'.checkout = CheckoutOf(props)]_vars
    /\ [][RedirectInvoked => cfm'.redirectCheckout = cfm.checkout]_vars

C11_Witness ==
    /\ cfm.pc = "done"
    /\ Happened("return")
    /\ cfm.redirectCheckout # CheckoutOf(props)
    /\ fullLoading

====
